---- MODULE Spec2Model ----
(***************************************************************************)
(* Model of scripts/benchmark.py: the lintal vs checkstyle benchmark       *)
(* harness.  Durations are measured in ticks of the monotonic clock;       *)
(* means, variances and ratios are exact rationals.                       *)
(***************************************************************************)
EXTENDS Integers, Sequences, FiniteSets, TLC

VARIABLES
    lintal_bin_exists,   \* LINTAL_BIN.exists()
    checkstyle_jar_exists, \* CHECKSTYLE_JAR.exists()
    repo_exists,         \* index of REPOS -> (PROJECT_ROOT / repo_path).exists()
    corpus,              \* index of REPOS -> set of paths below the corpus root
    tool_exit,           \* tool -> exit status of that tool's processes
    start_may_fail,      \* whether the system may refuse to start a process
    written,             \* files written by create_file_list: path -> text
    clock,               \* time.perf_counter()
    pc,                  \* position of the single flow of control
    idx,                 \* index into REPOS of the running for loop of main
    i,                   \* loop variable of the running loop of benchmark_repo
    files,               \* local of benchmark_repo
    file_list,           \* local of benchmark_repo
    checkstyle_times,    \* local of benchmark_repo
    lintal_times,        \* local of benchmark_repo
    results,             \* local of main
    stdout,              \* what main printed: errors, table header, table rows
    chart,               \* what create_chart saved, <<>> while there is none
    exit_status,         \* completion status of the process, -1 while it runs
    trials               \* history: corpus -> tool -> the calls of
                         \* run_checkstyle / run_lintal, each numbered in
                         \* the order the calls were made

vars == <<lintal_bin_exists, checkstyle_jar_exists, repo_exists, corpus,
          tool_exit, start_may_fail, written, clock, pc, idx, i, files, file_list,
          checkstyle_times, lintal_times, results, stdout, chart,
          exit_status, trials>>

env_vars == <<lintal_bin_exists, checkstyle_jar_exists, repo_exists, corpus,
              tool_exit, start_may_fail>>

\* ---------------------------------------------------------------- bounds
MaxClock == 1     \* the clock stops advancing here
MaxDepth == 2     \* directories above a file of a generated corpus
MaxFiles == 2     \* files of a generated corpus
MaxLen == 3       \* samples of a generated sample sequence
MaxSample == 1    \* largest generated sample

\* ------------------------------------------------------------- constants
WARMUP_RUNS == 2
TIMED_RUNS == 10

REPOS ==
    << [name |-> "Agrona", repo_path |-> <<"target", "agrona">>,
        benchmark_config |-> <<"config", "benchmark", "agrona-checkstyle.xml">>],
       [name |-> "Artio", repo_path |-> <<"target", "artio">>,
        benchmark_config |-> <<"config", "benchmark", "artio-checkstyle.xml">>],
       [name |-> "Aeron", repo_path |-> <<"target", "aeron">>,
        benchmark_config |-> <<"config", "benchmark", "aeron-checkstyle.xml">>] >>

\* Paths are sequences of components.  PROJECT_ROOT is the absolute path of
\* the checkout, whatever its name.
PROJECT_ROOT == <<"lintal">>
LINTAL_BIN == PROJECT_ROOT \o <<"target", "release", "lintal">>
CHECKSTYLE_JAR == PROJECT_ROOT \o <<"target", "checkstyle-13.0.0-all.jar">>

Tools == {"checkstyle", "lintal"}

\* ---------------------------------------------------------------- strings
\* A str is a sequence of characters.
Chars(s) ==
    CASE s = "lintal"  -> <<"l", "i", "n", "t", "a", "l">>
      [] s = "target"  -> <<"t", "a", "r", "g", "e", "t">>
      [] s = "agrona"  -> <<"a", "g", "r", "o", "n", "a">>
      [] s = "artio"   -> <<"a", "r", "t", "i", "o">>
      [] s = "aeron"   -> <<"a", "e", "r", "o", "n">>
      [] s = "build"   -> <<"b", "u", "i", "l", "d">>
      [] s = "rebuild" -> <<"r", "e", "b", "u", "i", "l", "d">>
      [] s = "src"     -> <<"s", "r", "c">>
      [] s = "A.java"  -> <<"A", ".", "j", "a", "v", "a">>
      [] s = "B.txt"   -> <<"B", ".", "t", "x", "t">>

\* Code point order of the characters in use.
Alphabet ==
    <<".", "/", "A", "B", "a", "b", "c", "d", "e", "g", "i", "j", "l", "n",
      "o", "r", "s", "t", "u", "v", "x">>

Ord(c) == CHOOSE k \in 1..Len(Alphabet) : Alphabet[k] = c

RECURSIVE StrLess(_, _)
StrLess(a, b) ==
    IF b = <<>> THEN FALSE
    ELSE IF a = <<>> THEN TRUE
    ELSE IF Head(a) # Head(b) THEN Ord(Head(a)) < Ord(Head(b))
    ELSE StrLess(Tail(a), Tail(b))

\* sep.join(parts)
RECURSIVE Join(_, _)
Join(parts, sep) ==
    IF parts = <<>> THEN <<>>
    ELSE IF Len(parts) = 1 THEN Head(parts)
    ELSE Head(parts) \o sep \o Join(Tail(parts), sep)

\* text.split(sep) for a one-character sep
RECURSIVE Split(_, _)
Split(text, sep) ==
    IF \A k \in 1..Len(text) : text[k] # sep THEN <<text>>
    ELSE LET k == CHOOSE k \in 1..Len(text) :
                      text[k] = sep /\ \A j \in 1..(k - 1) : text[j] # sep
         IN  <<SubSeq(text, 1, k - 1)>> \o Split(SubSeq(text, k + 1, Len(text)), sep)

\* sub in s
Contains(s, sub) ==
    \E k \in 1..(Len(s) - Len(sub) + 1) : SubSeq(s, k, k + Len(sub) - 1) = sub

EndsWith(s, suffix) ==
    /\ Len(s) >= Len(suffix)
    /\ SubSeq(s, Len(s) - Len(suffix) + 1, Len(s)) = suffix

\* ------------------------------------------------------------------ paths
\* str(p) of a relative path
StrRel(p) == Join([k \in 1..Len(p) |-> Chars(p[k])], <<"/">>)

\* str(p) of an absolute path
StrAbs(p) == <<"/">> \o StrRel(p)

\* p < q of two paths: their component lists compare, component by component
RECURSIVE PathLess(_, _)
PathLess(p, q) ==
    IF q = <<>> THEN FALSE
    ELSE IF p = <<>> THEN TRUE
    ELSE IF Head(p) # Head(q) THEN StrLess(Chars(Head(p)), Chars(Head(q)))
    ELSE PathLess(Tail(p), Tail(q))

\* sorted(S) of a set of paths
RECURSIVE Sorted(_)
Sorted(S) ==
    IF S = {} THEN <<>>
    ELSE LET m == CHOOSE m \in S : \A q \in S \ {m} : PathLess(m, q)
         IN  <<m>> \o Sorted(S \ {m})

\* repo_path.rglob("*.java"), as paths below repo_path
RglobJava(tree) == {f \in tree : EndsWith(Chars(f[Len(f)]), <<".", "j", "a", "v", "a">>)}

\* f.relative_to(base)
RelativeTo(f, base) == SubSeq(f, Len(base) + 1, Len(f))

\* The filter of create_file_list: "/build/" not in str(f.relative_to(repo_path))
NotInBuild(f, repo_path) ==
    ~Contains(StrRel(RelativeTo(f, repo_path)), <<"/", "b", "u", "i", "l", "d", "/">>)

FileListName(repo_name) ==
    CASE repo_name = "agrona" -> "agrona_files.txt"
      [] repo_name = "artio"  -> "artio_files.txt"
      [] repo_name = "aeron"  -> "aeron_files.txt"

\* The path create_file_list returns
FileListPath(repo_path) ==
    PROJECT_ROOT \o <<"target", FileListName(repo_path[Len(repo_path)])>>

\* The text create_file_list writes; tree is what lies below repo_path
FileListText(repo_path, tree) ==
    LET java_files == Sorted({f \in {repo_path \o rel : rel \in RglobJava(tree)} :
                                 NotInBuild(f, repo_path)})
    IN  Join([k \in 1..Len(java_files) |-> StrAbs(java_files[k])], <<"\n">>)

\* ------------------------------------------------------------- statistics
\* A number is an exact rational num/den in lowest terms, or, with
\* rad = TRUE, the square root of one; err names the exception raised in
\* place of a value.
RECURSIVE GCD(_, _)
GCD(a, b) == IF b = 0 THEN a ELSE GCD(b, a % b)

Frac(n, d) ==
    LET g == GCD(n, d)
    IN  [err |-> "none", num |-> n \div g, den |-> d \div g, rad |-> FALSE]

Zero == [err |-> "none", num |-> 0, den |-> 1, rad |-> FALSE]

Raise(e) == [err |-> e, num |-> 0, den |-> 1, rad |-> FALSE]

IsErr(v) == v.err # "none"

\* math.sqrt of a rational
Sqrt(q) == IF q.num = 0 THEN Zero ELSE [q EXCEPT !.rad = TRUE]

\* a / b of two rationals
TrueDiv(a, b) ==
    IF IsErr(a) THEN a
    ELSE IF IsErr(b) THEN b
    ELSE IF b.num = 0 THEN Raise("ZeroDivisionError")
    ELSE Frac(a.num * b.den, a.den * b.num)

RECURSIVE Sum(_)
Sum(data) == IF data = <<>> THEN 0 ELSE Head(data) + Sum(Tail(data))

RECURSIVE SumSq(_)
SumSq(data) == IF data = <<>> THEN 0 ELSE Head(data) * Head(data) + SumSq(Tail(data))

\* statistics.mean(data)
mean(data) ==
    IF Len(data) < 1 THEN Raise("StatisticsError")
    ELSE Frac(Sum(data), Len(data))

\* statistics.stdev(data): the square root of the sum of squared
\* deviations from the mean over n - 1, the sum taken exactly as
\* (n * sxx - sx * sx) / n
stdev(data) ==
    LET n == Len(data)
    IN  IF n < 2 THEN Raise("StatisticsError")
        ELSE Sqrt(Frac(n * SumSq(data) - Sum(data) * Sum(data), n * (n - 1)))

checkstyle_mean(r) == mean(r.checkstyle_times)

checkstyle_stdev_unguarded(r) == stdev(r.checkstyle_times)

checkstyle_stdev(r) ==
    IF Len(r.checkstyle_times) > 1 THEN stdev(r.checkstyle_times) ELSE Zero

lintal_mean(r) == mean(r.lintal_times)

lintal_stdev(r) ==
    IF Len(r.lintal_times) > 1 THEN stdev(r.lintal_times) ELSE Zero

speedup_unguarded(r) == TrueDiv(checkstyle_mean(r), lintal_mean(r))

speedup(r) ==
    IF IsErr(lintal_mean(r)) THEN lintal_mean(r)
    ELSE IF lintal_mean(r).num > 0
         THEN TrueDiv(checkstyle_mean(r), lintal_mean(r))
         ELSE Zero

\* ------------------------------------------------------------ trial runner
\* cmd of run_checkstyle
CheckstyleCmd(repo_path, config_path, list_path, suppressions_dir) ==
    [prog |-> <<"java">>, config_loc |-> suppressions_dir, jar |-> CHECKSTYLE_JAR,
     config |-> config_path, target |-> list_path]

\* cmd of run_lintal
LintalCmd(repo_path, config_path, suppressions_dir) ==
    [prog |-> LINTAL_BIN, config_loc |-> suppressions_dir, jar |-> <<>>,
     config |-> config_path, target |-> repo_path]

\* subprocess.run(cmd, capture_output=True, check=True) would raise on a
\* non-zero exit status
subprocess_run_check(started, status) ==
    IF ~started THEN "OSError"
    ELSE IF status # 0 THEN "CalledProcessError"
    ELSE "ok"

\* subprocess.run(cmd, capture_output=True, check=False): raises only when
\* the process cannot be started
subprocess_run(started, status) == IF started THEN "ok" ELSE "OSError"

\* An exception caught and dropped
Propagates_swallowed(outcome) == FALSE

\* No handler stands between subprocess.run and the top of the script
Propagates(outcome) == outcome # "ok"

\* time.perf_counter() - start
Elapsed(start, end) == end - start

\* The arguments benchmark_repo computes for REPOS[k]
RepoPath(k) == PROJECT_ROOT \o REPOS[k].repo_path
ConfigPath(k) == PROJECT_ROOT \o REPOS[k].benchmark_config
SuppressionsDir(k) == RepoPath(k) \o <<"config", "checkstyle">>

CmdOf(tool, k, list_path) ==
    IF tool = "checkstyle"
    THEN CheckstyleCmd(RepoPath(k), ConfigPath(k), list_path, SuppressionsDir(k))
    ELSE LintalCmd(RepoPath(k), ConfigPath(k), SuppressionsDir(k))

\* ------------------------------------------------------- benchmark_repo
\* The loop that follows each loop of benchmark_repo, tool by tool instead
\* of stage by stage
AfterLoop_by_tool(loop) ==
    CASE loop = "cs_warmup" -> "cs_timed"
      [] loop = "cs_timed"  -> "lt_warmup"
      [] loop = "lt_warmup" -> "lt_timed"
      [] loop = "lt_timed"  -> "bench_return"

\* The loop that follows each loop of benchmark_repo
AfterLoop(loop) ==
    CASE loop = "cs_warmup" -> "lt_warmup"
      [] loop = "lt_warmup" -> "cs_timed"
      [] loop = "cs_timed"  -> "lt_timed"
      [] loop = "lt_timed"  -> "bench_return"

\* How many calls of run_checkstyle / run_lintal were made so far
RECURSIVE CallsUpTo(_)
CallsUpTo(k) ==
    IF k = 0 THEN 0
    ELSE Len(trials[k]["checkstyle"]) + Len(trials[k]["lintal"]) + CallsUpTo(k - 1)

CallsMade == CallsUpTo(Len(REPOS))

\* One call of run_checkstyle / run_lintal from a loop of benchmark_repo;
\* trials records the call by the locals its command is built from.  A
\* process that cannot be started fails at once, and the exception leaves
\* benchmark_repo and main: traceback, status 1.
RunTrial(tool, kind) ==
    \E started \in (IF start_may_fail THEN BOOLEAN ELSE {TRUE}) :
    \E d \in 0..(IF started THEN MaxClock - clock ELSE 0) :
        LET start == clock
            outcome == subprocess_run(started, tool_exit[tool])
            t == Elapsed(start, clock + d)
            call == [seq |-> CallsMade + 1,
                     list |-> IF tool = "checkstyle" THEN file_list ELSE <<>>,
                     kind |-> kind, outcome |-> outcome, t |-> t]
        IN  /\ clock' = clock + d
            /\ trials' = [trials EXCEPT ![idx][tool] = Append(@, call)]
            /\ IF Propagates(outcome)
               THEN /\ pc' = "exited"
                    /\ exit_status' = 1
                    /\ UNCHANGED <<i, checkstyle_times, lintal_times>>
               ELSE /\ i' = i + 1
                    /\ pc' = pc
                    /\ UNCHANGED exit_status
                    /\ checkstyle_times' =
                           IF tool = "checkstyle" /\ kind = "timed"
                           THEN Append(checkstyle_times, t) ELSE checkstyle_times
                    /\ lintal_times' =
                           IF tool = "lintal" /\ kind = "timed"
                           THEN Append(lintal_times, t) ELSE lintal_times

\* for i in range(n - 1): ...
Loop_one_short(tool, kind, n) ==
    IF i < n - 1
    THEN RunTrial(tool, kind)
    ELSE /\ pc' = AfterLoop(pc)
         /\ i' = 0
         /\ checkstyle_times' = IF pc' = "cs_timed" THEN <<>> ELSE checkstyle_times
         /\ lintal_times' = IF pc' = "lt_timed" THEN <<>> ELSE lintal_times
         /\ UNCHANGED <<clock, trials, exit_status>>

\* for i in range(n): ...; then on to the next statement
Loop(tool, kind, n) ==
    IF i < n
    THEN RunTrial(tool, kind)
    ELSE /\ pc' = AfterLoop(pc)
         /\ i' = 0
         /\ checkstyle_times' = IF pc' = "cs_timed" THEN <<>> ELSE checkstyle_times
         /\ lintal_times' = IF pc' = "lt_timed" THEN <<>> ELSE lintal_times
         /\ UNCHANGED <<clock, trials, exit_status>>

BenchmarkRepoBegin ==
    /\ pc = "benchmark_repo"
    /\ files' = Cardinality(RglobJava(corpus[idx]))
    /\ file_list' = FileListPath(RepoPath(idx))
    /\ written' = (FileListPath(RepoPath(idx)) :> FileListText(RepoPath(idx), corpus[idx]))
                  @@ written
    /\ pc' = "cs_warmup"
    /\ i' = 0
    /\ UNCHANGED <<env_vars, clock, idx, checkstyle_times, lintal_times, results,
                   stdout, chart, exit_status, trials>>

CheckstyleWarmup ==
    /\ pc = "cs_warmup"
    /\ Loop("checkstyle", "warmup", WARMUP_RUNS)
    /\ UNCHANGED <<env_vars, written, idx, files, file_list, results, stdout, chart>>

LintalWarmup ==
    /\ pc = "lt_warmup"
    /\ Loop("lintal", "warmup", WARMUP_RUNS)
    /\ UNCHANGED <<env_vars, written, idx, files, file_list, results, stdout, chart>>

CheckstyleTimed ==
    /\ pc = "cs_timed"
    /\ Loop("checkstyle", "timed", TIMED_RUNS)
    /\ UNCHANGED <<env_vars, written, idx, files, file_list, results, stdout, chart>>

LintalTimed ==
    /\ pc = "lt_timed"
    /\ Loop("lintal", "timed", TIMED_RUNS)
    /\ UNCHANGED <<env_vars, written, idx, files, file_list, results, stdout, chart>>

\* return BenchmarkResult(...), and results.append(result) in main
BenchmarkRepoReturn ==
    /\ pc = "bench_return"
    /\ results' = Append(results,
                         [name |-> REPOS[idx].name, files |-> files,
                          checkstyle_times |-> checkstyle_times,
                          lintal_times |-> lintal_times])
    /\ idx' = idx + 1
    /\ pc' = "main_loop"
    /\ i' = 0
    /\ files' = 0
    /\ file_list' = <<>>
    /\ checkstyle_times' = <<>>
    /\ lintal_times' = <<>>
    /\ UNCHANGED <<env_vars, written, clock, stdout, chart, exit_status, trials>>

\* -------------------------------------------------------------- reports
Line(kind, text, at) == [kind |-> kind, text |-> text, at |-> at, row |-> <<>>]

\* One row of the table: what the f-string of print_results_table
\* evaluates.  A property that raises ends the script: traceback, status 1.
Row(r) ==
    [name |-> r.name, files |-> r.files,
     checkstyle_mean |-> checkstyle_mean(r), checkstyle_stdev |-> checkstyle_stdev(r),
     lintal_mean |-> lintal_mean(r), lintal_stdev |-> lintal_stdev(r),
     speedup |-> speedup(r)]

RowRaises(row) ==
    \/ IsErr(row.checkstyle_mean) \/ IsErr(row.checkstyle_stdev)
    \/ IsErr(row.lintal_mean) \/ IsErr(row.lintal_stdev) \/ IsErr(row.speedup)

\* for r in reversed(results)
TableOrder_reversed(rs) == [k \in 1..Len(rs) |-> rs[Len(rs) + 1 - k]]

\* for r in results, of print_results_table
TableOrder(rs) == rs

\* [... for r in results] and enumerate(results), of create_chart
ChartOrder(rs) == rs

PrintResultsTable ==
    /\ pc = "print_table"
    /\ LET rows == [k \in 1..Len(results) |-> Row(TableOrder(results)[k])]
           bad == {k \in 1..Len(rows) : RowRaises(rows[k])}
           upto == IF bad = {} THEN Len(rows)
                   ELSE (CHOOSE k \in bad : \A j \in bad : k <= j) - 1
       IN  /\ stdout' = stdout
                  \o <<Line("title", "## Results", <<>>),
                       Line("header", "| Repository | Files | Checkstyle | lintal | Speedup |", <<>>),
                       Line("rule", "|------------|-------|------------|--------|---------|", <<>>)>>
                  \o [k \in 1..upto |->
                         [kind |-> "row", text |-> "", at |-> <<>>, row |-> <<rows[k]>>]]
           /\ pc' = IF bad = {} THEN "create_chart" ELSE "exited"
           /\ exit_status' = IF bad = {} THEN exit_status ELSE 1
    /\ UNCHANGED <<env_vars, written, clock, idx, i, files, file_list, checkstyle_times,
                   lintal_times, results, chart, trials>>

\* The chart as saved: the tick labels, the two bar series with their
\* error bars, and the annotations, each in the order of ChartOrder
CreateChart ==
    /\ pc = "create_chart"
    /\ LET rs == ChartOrder(results)
           rows == [k \in 1..Len(rs) |-> Row(rs[k])]
           output_path == PROJECT_ROOT \o <<"target", "benchmark_results.png">>
       IN  IF \E k \in 1..Len(rows) : RowRaises(rows[k])
           THEN /\ pc' = "exited"
                /\ exit_status' = 1
                /\ UNCHANGED <<chart, stdout>>
           ELSE /\ chart' = <<[repos |-> [k \in 1..Len(rs) |-> rs[k].name],
                               checkstyle_means |-> [k \in 1..Len(rs) |-> rows[k].checkstyle_mean],
                               checkstyle_stdevs |-> [k \in 1..Len(rs) |-> rows[k].checkstyle_stdev],
                               lintal_means |-> [k \in 1..Len(rs) |-> rows[k].lintal_mean],
                               lintal_stdevs |-> [k \in 1..Len(rs) |-> rows[k].lintal_stdev],
                               annotations |-> [k \in 1..Len(rs) |-> rows[k].speedup],
                               output_path |-> output_path]>>
                /\ stdout' = Append(stdout, Line("saved", "Chart saved to:", output_path))
                /\ pc' = "return"
                /\ UNCHANGED exit_status
    /\ UNCHANGED <<env_vars, written, clock, idx, i, files, file_list, checkstyle_times,
                   lintal_times, results, trials>>

\* ------------------------------------------------------------------ main
\* The jar check left out
CheckCheckstyleJar_skipped ==
    /\ pc = "check_jar"
    /\ pc' = "check_repos"
    /\ idx' = 1
    /\ UNCHANGED <<env_vars, written, clock, i, files, file_list, checkstyle_times,
                   lintal_times, results, stdout, chart, exit_status, trials>>

CheckLintalBin ==
    /\ pc = "check_lintal"
    /\ IF ~lintal_bin_exists
       THEN /\ stdout' = stdout \o <<Line("error", "Error: lintal binary not found at", LINTAL_BIN),
                                     Line("hint", "Run: cargo build --release", <<>>)>>
            /\ pc' = "return"
       ELSE /\ pc' = "check_jar"
            /\ UNCHANGED stdout
    /\ UNCHANGED <<env_vars, written, clock, idx, i, files, file_list, checkstyle_times,
                   lintal_times, results, chart, exit_status, trials>>

CheckCheckstyleJar ==
    /\ pc = "check_jar"
    /\ IF ~checkstyle_jar_exists
       THEN /\ stdout' = stdout \o <<Line("error", "Error: checkstyle jar not found at", CHECKSTYLE_JAR),
                                     Line("hint", "Run: mise run download-checkstyle", <<>>)>>
            /\ pc' = "return"
            /\ UNCHANGED idx
       ELSE /\ pc' = "check_repos"
            /\ idx' = 1
            /\ UNCHANGED stdout
    /\ UNCHANGED <<env_vars, written, clock, i, files, file_list, checkstyle_times,
                   lintal_times, results, chart, exit_status, trials>>

\* One turn of: for name, repo_path, _ in REPOS; after the last, results = []
\* and the benchmark loop starts
CheckRepos ==
    /\ pc = "check_repos"
    /\ IF idx > Len(REPOS)
       THEN /\ pc' = "main_loop"
            /\ idx' = 1
            /\ UNCHANGED stdout
       ELSE IF ~repo_exists[idx]
       THEN /\ stdout' = stdout \o <<Line("error", "Error: not found at", RepoPath(idx)),
                                     Line("hint", "Run: mise run clone-test-repos", <<>>)>>
            /\ pc' = "return"
            /\ UNCHANGED idx
       ELSE /\ idx' = idx + 1
            /\ UNCHANGED <<pc, stdout>>
    /\ UNCHANGED <<env_vars, written, clock, i, files, file_list, checkstyle_times,
                   lintal_times, results, chart, exit_status, trials>>

\* One turn of: for name, repo_path, benchmark_config in REPOS
MainLoop ==
    /\ pc = "main_loop"
    /\ pc' = IF idx > Len(REPOS) THEN "print_table" ELSE "benchmark_repo"
    /\ UNCHANGED <<env_vars, written, clock, idx, i, files, file_list, checkstyle_times,
                   lintal_times, results, stdout, chart, exit_status, trials>>

\* main returns and the script ends
MainReturns ==
    /\ pc = "return"
    /\ pc' = "exited"
    /\ exit_status' = 0
    /\ UNCHANGED <<env_vars, written, clock, idx, i, files, file_list, checkstyle_times,
                   lintal_times, results, stdout, chart, trials>>

\* -------------------------------------------------------- specifications
\* A corpus with a source file, a generated file and a file that is no
\* Java file
SampleCorpus == {<<"src", "A.java">>, <<"src", "build", "A.java">>, <<"src", "B.txt">>}

Idle ==
    /\ written = <<>>
    /\ clock = 0
    /\ i = 0
    /\ files = 0
    /\ file_list = <<>>
    /\ checkstyle_times = <<>>
    /\ lintal_times = <<>>
    /\ stdout = <<>>
    /\ chart = <<>>
    /\ exit_status = -1
    /\ trials = [k \in 1..Len(REPOS) |-> [tool \in Tools |-> <<>>]]

\* The script starts with any of its prerequisites present or missing; a
\* process may fail to start, and one that starts exits with status 0
Init ==
    /\ lintal_bin_exists \in BOOLEAN
    /\ checkstyle_jar_exists \in BOOLEAN
    /\ repo_exists \in [1..Len(REPOS) -> BOOLEAN]
    /\ corpus = [k \in 1..Len(REPOS) |-> IF repo_exists[k] THEN SampleCorpus ELSE {}]
    /\ tool_exit = [tool \in Tools |-> 0]
    /\ start_may_fail = TRUE
    /\ pc = "check_lintal"
    /\ idx = 1
    /\ results = <<>>
    /\ Idle

Next ==
    \/ CheckLintalBin
    \/ CheckCheckstyleJar
    \/ CheckRepos
    \/ MainLoop
    \/ BenchmarkRepoBegin
    \/ CheckstyleWarmup
    \/ LintalWarmup
    \/ CheckstyleTimed
    \/ LintalTimed
    \/ BenchmarkRepoReturn
    \/ PrintResultsTable
    \/ CreateChart
    \/ MainReturns

Spec == Init /\ [][Next]_vars

\* The script starts with its prerequisites present; every process starts,
\* and those of one tool or of both exit with a non-zero status
InitExit ==
    /\ lintal_bin_exists = TRUE
    /\ checkstyle_jar_exists = TRUE
    /\ repo_exists = [k \in 1..Len(REPOS) |-> TRUE]
    /\ corpus = [k \in 1..Len(REPOS) |-> SampleCorpus]
    /\ tool_exit \in {f \in [Tools -> 0..1] : \E tool \in Tools : f[tool] # 0}
    /\ start_may_fail = FALSE
    /\ pc = "check_lintal"
    /\ idx = 1
    /\ results = <<>>
    /\ Idle

SpecExit == InitExit /\ [][Next]_vars

\* A result waits to be reported: sample sequences of any length from 1 to
\* MaxLen, samples from 0 to MaxSample
RECURSIVE SeqsOfLen(_)
SeqsOfLen(n) ==
    IF n = 0 THEN {<<>>}
    ELSE {Append(q, x) : q \in SeqsOfLen(n - 1), x \in 0..MaxSample}

SampleSequences == UNION {SeqsOfLen(n) : n \in 1..MaxLen}

InitStats ==
    /\ lintal_bin_exists = TRUE
    /\ checkstyle_jar_exists = TRUE
    /\ repo_exists = [k \in 1..Len(REPOS) |-> TRUE]
    /\ corpus = [k \in 1..Len(REPOS) |-> SampleCorpus]
    /\ tool_exit = [tool \in Tools |-> 0]
    /\ start_may_fail = FALSE
    /\ pc = "print_table"
    /\ idx = Len(REPOS) + 1
    /\ \E cs \in SampleSequences, lt \in SampleSequences :
           results = <<[name |-> REPOS[1].name,
                        files |-> Cardinality(RglobJava(SampleCorpus)),
                        checkstyle_times |-> cs, lintal_times |-> lt]>>
    /\ Idle

NextStats ==
    \/ PrintResultsTable
    \/ CreateChart
    \/ MainReturns

SpecStats == InitStats /\ [][NextStats]_vars

\* benchmark_repo is entered for a corpus of any shape: at most MaxFiles
\* files, each below at most MaxDepth directories
RECURSIVE DirSeqs(_)
DirSeqs(n) ==
    IF n = 0 THEN {<<>>}
    ELSE DirSeqs(n - 1)
         \cup {Append(q, x) : q \in {q \in DirSeqs(n - 1) : Len(q) = n - 1},
                              x \in {"build", "rebuild", "src"}}

PathUniverse == {Append(q, x) : q \in DirSeqs(MaxDepth), x \in {"A.java", "B.txt"}}

RECURSIVE TreesUpTo(_)
TreesUpTo(n) ==
    IF n = 0 THEN {{}}
    ELSE TreesUpTo(n - 1) \cup {tree \cup {f} : tree \in TreesUpTo(n - 1), f \in PathUniverse}

Corpora == TreesUpTo(MaxFiles)

InitFiles ==
    /\ lintal_bin_exists = TRUE
    /\ checkstyle_jar_exists = TRUE
    /\ repo_exists = [k \in 1..Len(REPOS) |-> TRUE]
    /\ \E tree \in Corpora :
           corpus = [k \in 1..Len(REPOS) |-> IF k = 1 THEN tree ELSE SampleCorpus]
    /\ tool_exit = [tool \in Tools |-> 0]
    /\ start_may_fail = FALSE
    /\ pc = "benchmark_repo"
    /\ idx = 1
    /\ results = <<>>
    /\ Idle

NextFiles == BenchmarkRepoBegin

SpecFiles == InitFiles /\ [][NextFiles]_vars

\* ---------------------------------------------------------------- claims
PrerequisiteMissing ==
    \/ ~lintal_bin_exists
    \/ ~checkstyle_jar_exists
    \/ \E k \in 1..Len(REPOS) : ~repo_exists[k]

\* The calls made for one tool on corpus k, in the order made
CallsOf(tool, k) == trials[k][tool]

\* Every call made
AllCalls == UNION {{<<k, tool, n>> : n \in 1..Len(trials[k][tool])} :
                       k \in 1..Len(REPOS), tool \in Tools}

\* The rows print_results_table has printed, in the order printed
RowsPrinted ==
    LET IsRow(l) == l.kind = "row"
        ls == SelectSeq(stdout, IsRow)
    IN  [k \in 1..Len(ls) |-> ls[k].row[1]]

TablePrinted == \E n \in 1..Len(stdout) : stdout[n].kind \in {"title", "header", "rule", "row"}

\* The sample sequence of one tool on corpus k: the local list while
\* benchmark_repo runs on k, the field of the result after
SamplesOf(tool, k) ==
    IF k <= Len(results)
    THEN IF tool = "checkstyle" THEN results[k].checkstyle_times ELSE results[k].lintal_times
    ELSE IF tool = "checkstyle" THEN checkstyle_times ELSE lintal_times

\* The calls of one corpus: how many, and the place among them of the n-th
\* call of a tool when the four loops run one after the other
CallsPerCorpus == 2 * WARMUP_RUNS + 2 * TIMED_RUNS

StagePlace(tool, n) ==
    IF tool = "checkstyle"
    THEN IF n <= WARMUP_RUNS THEN n ELSE WARMUP_RUNS + n
    ELSE IF n <= WARMUP_RUNS THEN WARMUP_RUNS + n ELSE WARMUP_RUNS + TIMED_RUNS + n

\* C1, as claimed: on every corpus all calls of checkstyle, warmup and
\* timed, are made before the first call of lintal.
C1_ToolsFullySeparate ==
    \A k \in 1..Len(REPOS) :
        \A a \in 1..Len(CallsOf("checkstyle", k)) : \A b \in 1..Len(CallsOf("lintal", k)) :
            CallsOf("checkstyle", k)[a].seq < CallsOf("lintal", k)[b].seq

\* C1, amended: on every corpus the calls are made in four loops that do not
\* interleave: WARMUP_RUNS warmups of checkstyle, WARMUP_RUNS warmups of
\* lintal, TIMED_RUNS timed runs of checkstyle, TIMED_RUNS timed runs of
\* lintal; and one corpus is finished before the next is begun.
C1_StagesSeparate ==
    \A k \in 1..Len(REPOS) : \A tool \in Tools :
        \A n \in 1..Len(CallsOf(tool, k)) :
            /\ CallsOf(tool, k)[n].seq = (k - 1) * CallsPerCorpus + StagePlace(tool, n)
            /\ CallsOf(tool, k)[n].kind = IF n <= WARMUP_RUNS THEN "warmup" ELSE "timed"

\* C1 witness: a warmup of lintal has been followed by a timed run of
\* checkstyle on the same corpus.
C1_Witness ==
    \E k \in 1..Len(REPOS) :
        \E a \in 1..Len(CallsOf("lintal", k)) : \E b \in 1..Len(CallsOf("checkstyle", k)) :
            /\ CallsOf("lintal", k)[a].seq < CallsOf("checkstyle", k)[b].seq
            /\ CallsOf("lintal", k)[a].kind = "warmup"
            /\ CallsOf("checkstyle", k)[b].kind = "timed"
            /\ CallsOf("checkstyle", k)[b].outcome = "ok"

\* C2: for every tool and every corpus benchmark_repo has returned for,
\* exactly WARMUP_RUNS + TIMED_RUNS calls were made, all with the same
\* command, and the sample sequence of the result is the durations of the
\* last TIMED_RUNS of them in the order of the calls.
C2_SamplesAreTimedRuns ==
    \A tool \in Tools : \A k \in 1..Len(results) :
        LET calls == CallsOf(tool, k)
        IN  /\ Len(calls) = WARMUP_RUNS + TIMED_RUNS
            /\ \A n \in 1..Len(calls) : calls[n].outcome = "ok"
            /\ \A n \in 2..Len(calls) : calls[n].seq > calls[n - 1].seq
            /\ LET first == CmdOf(tool, k, calls[1].list)
               IN  \A n \in 2..Len(calls) : CmdOf(tool, k, calls[n].list) = first
            /\ Len(SamplesOf(tool, k)) = TIMED_RUNS
            /\ SamplesOf(tool, k) = [j \in 1..TIMED_RUNS |-> calls[WARMUP_RUNS + j].t]

\* C2 witness: a result holds a sample sequence whose samples differ, the
\* long one not the first.
C2_Witness ==
    \E k \in 1..Len(results) : \E j \in 2..TIMED_RUNS :
        /\ Len(results[k].lintal_times) = TIMED_RUNS
        /\ results[k].lintal_times[j] > 0
        /\ results[k].lintal_times[1] = 0

\* C3: with a prerequisite missing at the start, no call of run_checkstyle
\* or run_lintal is ever made, benchmark_repo is never entered, and neither
\* the table nor the chart is produced.
C3_PreflightBlocksTrials ==
    PrerequisiteMissing =>
        /\ CallsMade = 0
        /\ written = <<>>
        /\ results = <<>>
        /\ ~TablePrinted
        /\ chart = <<>>
        /\ pc \in {"check_lintal", "check_jar", "check_repos", "return", "exited"}

\* C3 witness: only the last corpus of REPOS is missing, and the script
\* has ended.
C3_Witness ==
    /\ lintal_bin_exists /\ checkstyle_jar_exists
    /\ \A k \in 1..Len(REPOS) : repo_exists[k] <=> k < Len(REPOS)
    /\ pc = "exited"

\* C4, as claimed: a script that ends with a prerequisite missing ends with
\* a message naming it and with a non-zero status.
C4_MissingPrerequisiteFails ==
    (pc = "exited" /\ PrerequisiteMissing) =>
        /\ \E n \in 1..Len(stdout) : stdout[n].kind = "error"
        /\ exit_status # 0

\* C5: a call that cannot start its process is the last call of the run:
\* the script ends at once with a failure status, no result is built for
\* the corpus of the call, and neither the table nor the chart is produced.
C5_StartFailureIsFatal ==
    \A k \in 1..Len(REPOS) : \A tool \in Tools :
        \A n \in 1..Len(CallsOf(tool, k)) :
            CallsOf(tool, k)[n].outcome # "ok" =>
                /\ CallsOf(tool, k)[n].seq = CallsMade
                /\ pc = "exited"
                /\ exit_status = 1
                /\ Len(results) = k - 1
                /\ ~TablePrinted
                /\ chart = <<>>

\* C5 witness: a timed run fails to start after an earlier corpus was
\* finished.
C5_Witness ==
    /\ Len(results) >= 1
    /\ \E c \in AllCalls :
           /\ trials[c[1]][c[2]][c[3]].outcome = "OSError"
           /\ trials[c[1]][c[2]][c[3]].kind = "timed"

\* C6: a call whose process starts and exits with a non-zero status raises
\* nothing and returns a duration that is not negative; a timed one has its
\* duration in the sample sequence at its place; and the script, whatever
\* the exit statuses, makes every call of every corpus in the same order
\* and ends with the table and the chart.
C6_ExitStatusIgnored ==
    /\ \A tool \in {tool \in Tools : tool_exit[tool] # 0} : \A k \in 1..Len(REPOS) :
           LET calls == CallsOf(tool, k)
               samples == SamplesOf(tool, k)
           IN  \A n \in 1..Len(calls) :
                   calls[n].outcome # "OSError" =>
                       /\ calls[n].outcome = "ok"
                       /\ calls[n].t >= 0
                       /\ calls[n].seq = (k - 1) * CallsPerCorpus + StagePlace(tool, n)
                       /\ n > WARMUP_RUNS =>
                              /\ Len(samples) >= n - WARMUP_RUNS
                              /\ samples[n - WARMUP_RUNS] = calls[n].t
    /\ pc = "exited" =>
           /\ CallsMade = Len(REPOS) * CallsPerCorpus
           /\ Len(RowsPrinted) = Len(REPOS)
           /\ chart # <<>>
           /\ exit_status = 0

\* C6 witness: both tools exit with a non-zero status, a timed run took
\* time, and the script has ended with the chart saved.
C6_Witness ==
    /\ \A tool \in Tools : tool_exit[tool] # 0
    /\ pc = "exited"
    /\ chart # <<>>
    /\ \E c \in AllCalls :
           /\ trials[c[1]][c[2]][c[3]].kind = "timed"
           /\ trials[c[1]][c[2]][c[3]].t > 0

\* C10: every result stands at the place of its corpus in REPOS and was
\* appended with all calls of its corpus made; and once the table is
\* printed there is one result for each corpus, and the rows of the table
\* and the bar groups of the chart name the corpora in the order of REPOS.
C10_ReportKeepsCorpusOrder ==
    /\ \A k \in 1..Len(results) :
           /\ k <= Len(REPOS)
           /\ results[k].name = REPOS[k].name
           /\ Len(CallsOf("checkstyle", k)) + Len(CallsOf("lintal", k)) = CallsPerCorpus
    /\ (TablePrinted /\ exit_status # 1) =>
           /\ Len(results) = Len(REPOS)
           /\ [k \in 1..Len(RowsPrinted) |-> RowsPrinted[k].name]
                  = [k \in 1..Len(REPOS) |-> REPOS[k].name]
           /\ \A k \in 1..Len(REPOS) : RowsPrinted[k] = Row(results[k])
    /\ chart # <<>> =>
           /\ chart[1].repos = [k \in 1..Len(REPOS) |-> REPOS[k].name]
           /\ chart[1].annotations = [k \in 1..Len(REPOS) |-> speedup(results[k])]
           /\ chart[1].checkstyle_means = [k \in 1..Len(REPOS) |-> checkstyle_mean(results[k])]
           /\ chart[1].lintal_means = [k \in 1..Len(REPOS) |-> lintal_mean(results[k])]

\* C10 witness: the script has ended with the table printed and the chart
\* saved, and the corpora took different times.
C10_Witness ==
    /\ pc = "exited"
    /\ chart # <<>>
    /\ Len(RowsPrinted) = Len(REPOS)
    /\ \E k \in 1..Len(results) : results[k].checkstyle_times[1] > 0

\* Sum of the squared deviations of the samples from their mean, times the
\* square of their number
RECURSIVE ScaledSquares(_, _, _)
ScaledSquares(data, n, total) ==
    IF data = <<>> THEN 0
    ELSE (n * Head(data) - total) * (n * Head(data) - total)
         + ScaledSquares(Tail(data), n, total)

AllEqual(data) == \A a, b \in 1..Len(data) : data[a] = data[b]

\* v is the standard deviation wanted of data: 0 where the samples are all
\* equal, and with two samples or more the square root of the sum of the
\* squared deviations from the mean over one less than their number
IsSampleStdev(v, data) ==
    LET n == Len(data)
    IN  /\ v.err = "none"
        /\ AllEqual(data) => v = Zero
        /\ n >= 2 =>
               /\ v.den > 0
               /\ v.rad \/ v.num = 0
               /\ v.num * n * n * (n - 1) = v.den * ScaledSquares(data, n, Sum(data))

\* C7: the speedup of a reported result is the mean of the checkstyle
\* samples over the mean of the lintal samples where the latter is above 0,
\* and exactly 0 where it is 0; computing it raises nothing.
C7_SpeedupGuarded ==
    /\ exit_status # 1
    /\ pc # "print_table" =>
           /\ Len(RowsPrinted) = Len(results)
           /\ \A k \in 1..Len(results) :
                  LET cs == results[k].checkstyle_times
                      lt == results[k].lintal_times
                      v == RowsPrinted[k].speedup
                  IN  /\ v.err = "none"
                      /\ ~v.rad
                      /\ v.den > 0
                      /\ Sum(lt) = 0 => v = Zero
                      /\ Sum(lt) > 0 =>
                             v.num * Sum(lt) * Len(cs) = v.den * Sum(cs) * Len(lt)

\* C7 witness: a result whose lintal samples are all 0 and whose checkstyle
\* samples are not has been reported, and the script has ended.
C7_Witness ==
    /\ pc = "exited"
    /\ Len(RowsPrinted) = 1
    /\ Sum(results[1].lintal_times) = 0
    /\ Sum(results[1].checkstyle_times) > 0
    /\ chart # <<>>

\* C8: the two standard deviations of a reported result are exactly 0 where
\* the samples are all equal, a single sample included, and are the sample
\* standard deviation, divisor n - 1, where there are two samples or more;
\* computing them raises nothing.
C8_StdevOfSamples ==
    /\ exit_status # 1
    /\ pc # "print_table" =>
           /\ Len(RowsPrinted) = Len(results)
           /\ \A k \in 1..Len(results) :
                  /\ IsSampleStdev(RowsPrinted[k].checkstyle_stdev, results[k].checkstyle_times)
                  /\ IsSampleStdev(RowsPrinted[k].lintal_stdev, results[k].lintal_times)

\* C8 witness: a result with a single checkstyle sample and with several
\* lintal samples, all equal and above 0, has been reported.
C8_Witness ==
    /\ pc = "exited"
    /\ Len(RowsPrinted) = 1
    /\ Len(results[1].checkstyle_times) = 1
    /\ results[1].checkstyle_times[1] > 0
    /\ Len(results[1].lintal_times) >= 2
    /\ AllEqual(results[1].lintal_times)
    /\ results[1].lintal_times[1] > 0

\* C9, as claimed: the file list written for a corpus names exactly its
\* .java files that have no directory named build above them, a build
\* directory right under the corpus root included.
C9_FileListSkipsBuild ==
    pc = "cs_warmup" =>
        LET listed == {l \in {Split(written[file_list], "\n")[n] :
                                 n \in 1..Len(Split(written[file_list], "\n"))} : l # <<>>}
            wanted == {f \in corpus[idx] :
                          /\ EndsWith(Chars(f[Len(f)]), <<".", "j", "a", "v", "a">>)
                          /\ \A n \in 1..(Len(f) - 1) : f[n] # "build"}
        IN  listed = {StrAbs(RepoPath(idx) \o f) : f \in wanted}

====
